---- MODULE Spec2Model ----
(***************************************************************************)
(* Notification dispatch pipeline of app.py: the /start_messaging and      *)
(* /upload_csv handlers, the shared message_status dictionary and the      *)
(* background thread run_messaging_process, one step per statement that    *)
(* reads or writes shared state or calls an external collaborator.         *)
(***************************************************************************)
EXTENDS Integers, Sequences, FiniteSets, TLC

(* ------------------------------ bounds --------------------------------- *)

\* Thread slots: how many run_messaging_process threads may exist at once.
MaxWorkers == 2

\* Days datetime.now().date() may show when a run filters: 0 .. MaxClock.
MaxClock == 0

\* Longest record list handed to the filter on its own.
MaxRecords == 3

\* Days the clock may show when the filter is applied on its own.
MaxProbeClock == 1

\* Most pieces of a template handed to the renderer on its own.
MaxTemplate == 3

\* Most characters of a contact handed to the normalisation on its own.
MaxContact == 3

Workers == 1 .. MaxWorkers

Clock == 0 .. MaxClock

(* ------------------------------ constants ------------------------------ *)

\* timedelta(days=6)
LookAheadDays == 6

\* pandas NaT, the result of coercing an unparseable date; equal to no date.
NaT == -1

selected_categories == {"Active", "NoClientsInstruction"}

required_columns ==
  <<"Client", "Contact", "NextHearingDate", "Category", "TypRnRy", "Parties">>

Whitespace == {" ", "\t"}

(* --------------------------- pure functions ---------------------------- *)

\* pd.to_datetime(..., errors='coerce').dt.date on one cell: day number of
\* an ISO date (day 0 is 2025-01-01), NaT for anything else.
ParseDate(s) ==
  CASE s = "2025-01-07" -> 6
    [] s = "2025-01-08" -> 7
    [] s = "2025-01-09" -> 8
    [] OTHER -> NaT

\* str() of a cell of the converted NextHearingDate column.
DateStr(d) ==
  CASE d = 6 -> "2025-01-07"
    [] d = 7 -> "2025-01-08"
    [] d = 8 -> "2025-01-09"
    [] OTHER -> "NaT"

\* str.replace(" ", ""): every space removed.
RECURSIVE RemoveSpaces(_)
RemoveSpaces(s) ==
  IF s = <<>> THEN <<>>
  ELSE IF Head(s) = " " THEN RemoveSpaces(Tail(s))
       ELSE <<Head(s)>> \o RemoveSpaces(Tail(s))

\* str.strip(): leading and trailing whitespace removed.
RECURSIVE LStrip(_)
LStrip(s) ==
  IF s # <<>> /\ Head(s) \in Whitespace THEN LStrip(Tail(s)) ELSE s

RECURSIVE RStrip(_)
RStrip(s) ==
  IF s # <<>> /\ s[Len(s)] \in Whitespace
  THEN RStrip(SubSeq(s, 1, Len(s) - 1))
  ELSE s

Strip(s) == RStrip(LStrip(s))

\* df['Contact'].str.replace(" ", "").str.strip() on one cell.
NormalizeContact(c) == Strip(RemoveSpaces(c))

\* The NextHearingDate column after the coercion of line 255.
ConvertDates(rows) ==
  [i \in 1 .. Len(rows) |->
     [rows[i] EXCEPT !.NextHearingDate = ParseDate(rows[i].NextHearingDate)]]

\* Boolean indexing of a frame: the rows whose mask entry is true, in order.
RECURSIVE MaskSelect(_, _)
MaskSelect(rows, mask) ==
  IF rows = <<>> THEN <<>>
  ELSE IF Head(mask)
       THEN <<Head(rows)>> \o MaskSelect(Tail(rows), Tail(mask))
       ELSE MaskSelect(Tail(rows), Tail(mask))

\* A filter that drops the Inactive rows instead of keeping the selected ones.
FilterCategory_not_inactive(clients) ==
  MaskSelect(clients,
             [i \in 1 .. Len(clients) |-> clients[i].Category # "Inactive"])

\* clients[clients['Category'].isin(selected_categories)]
FilterCategory(clients) ==
  MaskSelect(clients,
             [i \in 1 .. Len(clients) |->
                clients[i].Category \in selected_categories])

\* filtered_clients[filtered_clients['NextHearingDate'] == today]
FilterDate(filtered_clients, today) ==
  MaskSelect(filtered_clients,
             [i \in 1 .. Len(filtered_clients) |->
                filtered_clients[i].NextHearingDate = today])

\* Lines 254-258: the due-set of a run, from the rows as read and the
\* reference date.
Due(rows, today) == FilterDate(FilterCategory(ConvertDates(rows)), today)

\* str.replace(old, new): every non-overlapping occurrence, left to right.
RECURSIVE Replace(_, _, _)
Replace(s, old, new) ==
  IF Len(s) < Len(old) THEN s
  ELSE IF SubSeq(s, 1, Len(old)) = old
       THEN new \o Replace(SubSeq(s, Len(old) + 1, Len(s)), old, new)
       ELSE <<Head(s)>> \o Replace(Tail(s), old, new)

\* f"{{{col}}}"
Placeholder(col) == <<"{", col, "}">>

\* str(row[col]) as text: a text is a sequence of tokens, "{" and "}" being
\* tokens of their own and a field name being one token.
StrCell(row, col) ==
  CASE col = "NextHearingDate" -> <<DateStr(row[col])>>
    [] col = "Category" -> <<row[col]>>
    [] OTHER -> row[col]

\* Lines 295-297: one replace per column of clients, in column order, each
\* on the result of the one before (bound once, as message is in the loop).
RECURSIVE ReplaceColumns(_, _, _)
ReplaceColumns(message, cols, row) ==
  IF cols = <<>> THEN message
  ELSE CHOOSE result \in
         {ReplaceColumns(replaced, Tail(cols), row) :
            replaced \in {Replace(message, Placeholder(Head(cols)),
                                  StrCell(row, Head(cols)))}} : TRUE

\* Lines 291-297.
Render(message_template, row) ==
  ReplaceColumns(message_template, required_columns, row)

(* ------------------------------ inputs --------------------------------- *)

Row(client, contact, date, category, typ, parties) ==
  [Client |-> client, Contact |-> contact, NextHearingDate |-> date,
   Category |-> category, TypRnRy |-> typ, Parties |-> parties]

\* The files the model uploads.  clients.csv holds, with the clock at day 0,
\* two due rows (A, C) around a row of the next day (B), an Inactive row (D)
\* and a row with an unparseable date (E); partial.csv lacks a column of
\* required_columns, which /upload_csv reports only after saving the file.
CsvFiles == {"clients.csv", "partial.csv"}

\* /upload_csv also takes files named .txt (ALLOWED_EXTENSIONS, line 39):
\* clients.txt is the list of clients.csv under such a name.
TxtFiles == {"clients.txt"}

CsvColumnsOk(f) == f # "partial.csv"

CsvRows(f) ==
  IF f \in {"clients.csv", "clients.txt"}
  THEN << Row(<<"A">>, <<"+", "9", " ", "1">>, "2025-01-07", "Active",
              <<"T1">>, <<"P1">>),
          Row(<<"B">>, <<" ", "9", "2">>, "2025-01-08", "Active",
              <<"T2">>, <<"P2">>),
          Row(<<"D">>, <<"9", "4">>, "2025-01-07", "Inactive",
              <<"T4">>, <<"P4">>),
          Row(<<"E">>, <<"9", "5">>, "not-a-date", "Active",
              <<"T5">>, <<"P5">>),
          Row(<<"C">>, <<"9", "3", " ">>, "2025-01-07", "NoClientsInstruction",
              <<"T3">>, <<"P3">>) >>
  ELSE <<>>

\* The template store as initialize_default_configs leaves it.
templates ==
  [Active |->
     <<"Dear ", "{", "Client", "}", ", your hearing for ", "{", "Parties",
       "}", " is on ", "{", "NextHearingDate", "}", ".">>,
   NoClientsInstruction |->
     <<"Dear ", "{", "Client", "}", ", we need your instructions for ", "{",
       "Parties", "}", " before ", "{", "NextHearingDate", "}", ".">>]

(* ------------------------------- state --------------------------------- *)

VARIABLES
  message_status,  \* the global dictionary of lines 42-48
  uploads,         \* the files of uploads/, oldest ctime first
  response,        \* the answer of the last /start_messaging request
  pc,              \* per thread slot: the statement the thread is at
  csv_path,        \* per thread: the argument of run_messaging_process
  df,              \* per thread: the frame read at line 246
  today_clients,   \* per thread: the due-set of line 258
  driver,          \* per thread: "none", "open" or "quit"
  index,           \* per thread: the loop index of line 285
  message,         \* per thread: the rendered text of the current row
  success,         \* per thread: the result of the last send
  exc,             \* per thread: str(e) of the exception being handled
  session,         \* per thread: what check_session_webapp returned
  attempted,       \* per thread: send_whatsapp_message_webapp calls so far
  status_json,     \* the body of the /status answer being sent, if any
  probe            \* a pure function applied on its own: input and result

locals ==
  <<csv_path, df, today_clients, driver, index, message, success, exc,
    session, attempted>>

vars ==
  <<message_status, uploads, response, pc, locals, status_json, probe>>

\* No /status answer is being sent: the last step was not a status read.
NotSending == <<>>

NoProbe == [fn |-> "none", arg |-> <<>>, out |-> <<>>]

\* The process after start-up: no thread, no upload, no request answered.
Started ==
  /\ message_status =
       [is_running |-> FALSE, current_step |-> "", progress |-> 0,
        total |-> 0, messages |-> <<>>]
  /\ uploads = <<>>
  /\ response = "none"
  /\ pc = [w \in Workers |-> "idle"]
  /\ csv_path = [w \in Workers |-> ""]
  /\ df = [w \in Workers |-> <<>>]
  /\ today_clients = [w \in Workers |-> <<>>]
  /\ driver = [w \in Workers |-> "none"]
  /\ index = [w \in Workers |-> 0]
  /\ message = [w \in Workers |-> <<>>]
  /\ success = [w \in Workers |-> FALSE]
  /\ exc = [w \in Workers |-> ""]
  /\ session = [w \in Workers |-> "unknown"]
  /\ attempted = [w \in Workers |-> 0]
  /\ status_json = NotSending

Init == Started /\ probe = NoProbe

(* ------------------------------ handlers ------------------------------- *)

Last(s) == s[Len(s)]

Without(s, f) == MaskSelect(s, [i \in 1 .. Len(s) |-> s[i] # f])

\* upload_csv, lines 135-161: file.save comes before the column check, so the
\* file is in uploads/ whatever the check answers, with a fresh ctime.
upload_csv(f) ==
  /\ uploads' = Append(Without(uploads, f), f)
  /\ UNCHANGED <<message_status, response, pc, locals, probe>>
  /\ status_json' = NotSending

\* Line 201: the files of uploads/ whose name ends with ".csv".
EndsWithCsv(f) == f \in CsvFiles

upload_files == SelectSeq(uploads, EndsWithCsv)

\* A thread slot is free when no thread occupies it.
Free(w) == pc[w] = "idle"

\* threading.Thread(target=run_messaging_process, args=(csv_path,)).start()
Spawn(w, path) ==
  /\ pc' = [pc EXCEPT ![w] = "l226"]
  /\ csv_path' = [csv_path EXCEPT ![w] = path]
  /\ UNCHANGED <<df, today_clients, driver, index, message, success, exc,
                 session, attempted>>

\* A handler that marks the run as started itself when it accepts a request.
start_messaging_sets_is_running ==
  /\ \/ /\ message_status.is_running
        /\ response' = "already in progress"
        /\ UNCHANGED <<message_status, pc, locals>>
     \/ /\ ~message_status.is_running
        /\ upload_files = <<>>
        /\ response' = "upload a CSV first"
        /\ UNCHANGED <<message_status, pc, locals>>
     \/ /\ ~message_status.is_running
        /\ upload_files # <<>>
        /\ \E w \in Workers : Free(w) /\ Spawn(w, Last(upload_files))
        /\ message_status' = [message_status EXCEPT !.is_running = TRUE]
        /\ response' = "started"
  /\ UNCHANGED <<uploads, probe>>
  /\ status_json' = NotSending

\* start_messaging, lines 193-213.
start_messaging ==
  /\ \/ /\ message_status.is_running
        /\ response' = "already in progress"
        /\ UNCHANGED <<pc, locals>>
     \/ /\ ~message_status.is_running
        /\ upload_files = <<>>
        /\ response' = "upload a CSV first"
        /\ UNCHANGED <<pc, locals>>
     \/ /\ ~message_status.is_running
        /\ upload_files # <<>>
        /\ \E w \in Workers : Free(w) /\ Spawn(w, Last(upload_files))
        /\ response' = "started"
  /\ UNCHANGED <<message_status, uploads, probe>>
  /\ status_json' = NotSending

\* A status handler that answers with a copy of the dictionary taken when the
\* module was loaded.
get_status_of_import ==
  /\ status_json' =
       <<[is_running |-> FALSE, current_step |-> "", progress |-> 0,
          total |-> 0, messages |-> <<>>]>>
  /\ UNCHANGED <<message_status, uploads, response, pc, locals, probe>>

\* get_status, lines 215-217: the answer is the dictionary as it is now.
get_status ==
  /\ status_json' = <<message_status>>
  /\ UNCHANGED <<message_status, uploads, response, pc, locals, probe>>

(* ------------------------- run_messaging_process ----------------------- *)

Goto(w, l) == pc' = [pc EXCEPT ![w] = l]

SetStatus(key, value) ==
  message_status' = [message_status EXCEPT ![key] = value]

\* An exception inside the try block of lines 231-314: control passes to the
\* handler of line 315 with str(e).
Raise(w, e) ==
  /\ Goto(w, "l316")
  /\ exc' = [exc EXCEPT ![w] = e]

\* A statement that only writes message_status.
Write(w, at, key, value, next) ==
  /\ pc[w] = at
  /\ SetStatus(key, value)
  /\ Goto(w, next)
  /\ UNCHANGED <<uploads, response, locals, probe>>
  /\ status_json' = NotSending

\* The thread function returns: its frame, and with it every local, is gone.
\* The browser a run leaves open is no longer referenced by anything.
Return(w) ==
  /\ pc' = [pc EXCEPT ![w] = "idle"]
  /\ csv_path' = [csv_path EXCEPT ![w] = ""]
  /\ df' = [df EXCEPT ![w] = <<>>]
  /\ today_clients' = [today_clients EXCEPT ![w] = <<>>]
  /\ driver' = [driver EXCEPT ![w] = "none"]
  /\ index' = [index EXCEPT ![w] = 0]
  /\ message' = [message EXCEPT ![w] = <<>>]
  /\ success' = [success EXCEPT ![w] = FALSE]
  /\ exc' = [exc EXCEPT ![w] = ""]
  /\ session' = [session EXCEPT ![w] = "unknown"]
  /\ attempted' = [attempted EXCEPT ![w] = 0]

\* The last statement of a path through the function: is_running = False.
WriteAndReturn(w, at) ==
  /\ pc[w] = at
  /\ SetStatus("is_running", FALSE)
  /\ Return(w)
  /\ UNCHANGED <<uploads, response, probe>>
  /\ status_json' = NotSending

l226(w) == Write(w, "l226", "is_running", TRUE, "l227")

l227(w) == Write(w, "l227", "current_step", "Initializing...", "l228")

l228(w) == Write(w, "l228", "progress", 0, "l229")

l229(w) == Write(w, "l229", "messages", <<>>, "l232")

\* Lines 232-242: config.json is read if present; json.load raises on a
\* file that is not JSON.
l232(w) ==
  /\ pc[w] = "l232"
  /\ \/ Goto(w, "l245") /\ UNCHANGED exc
     \/ Raise(w, "config.json")
  /\ UNCHANGED <<message_status, uploads, response, csv_path, df,
                 today_clients, driver, index, message, success, session,
                 attempted, probe>>
  /\ status_json' = NotSending

l245(w) == Write(w, "l245", "current_step", "Processing CSV file...", "l246")

\* Lines 246-247: read_csv raises when the file cannot be read; otherwise
\* the Contact column is normalised.
l246(w) ==
  /\ pc[w] = "l246"
  /\ \/ /\ Goto(w, "l250")
        /\ df' = [df EXCEPT ![w] =
                    [i \in 1 .. Len(CsvRows(csv_path[w])) |->
                       [CsvRows(csv_path[w])[i] EXCEPT
                          !.Contact = NormalizeContact(@)]]]
        /\ UNCHANGED exc
     \/ Raise(w, "read_csv") /\ UNCHANGED df
  /\ UNCHANGED <<message_status, uploads, response, csv_path, today_clients,
                 driver, index, message, success, session, attempted, probe>>
  /\ status_json' = NotSending

l250(w) == Write(w, "l250", "current_step", "Filtering clients...", "l251")

\* Lines 251-258: the reference date is read from the clock once; selecting
\* the six columns raises KeyError when the file lacks one.
l251(w) ==
  /\ pc[w] = "l251"
  /\ IF CsvColumnsOk(csv_path[w])
     THEN /\ \E now \in Clock :
               today_clients' =
                 [today_clients EXCEPT ![w] = Due(df[w], now + LookAheadDays)]
          /\ Goto(w, "l260")
          /\ UNCHANGED exc
     ELSE /\ Raise(w, "not in index")
          /\ UNCHANGED today_clients
  /\ UNCHANGED <<message_status, uploads, response, csv_path, df, driver,
                 index, message, success, session, attempted, probe>>
  /\ status_json' = NotSending

l260(w) == Write(w, "l260", "total", Len(today_clients[w]), "l263")

\* Lines 263-271: open raises when a template file cannot be read.
l263(w) ==
  /\ pc[w] = "l263"
  /\ \/ Goto(w, "l274") /\ UNCHANGED exc
     \/ Raise(w, "template")
  /\ UNCHANGED <<message_status, uploads, response, csv_path, df,
                 today_clients, driver, index, message, success, session,
                 attempted, probe>>
  /\ status_json' = NotSending

l274(w) == Write(w, "l274", "current_step", "Initializing browser...", "l275")

\* Line 275, initialize_webdriver_for_webapp: returns a driver or re-raises.
l275(w) ==
  /\ pc[w] = "l275"
  /\ \/ /\ Goto(w, "l277")
        /\ driver' = [driver EXCEPT ![w] = "open"]
        /\ UNCHANGED exc
     \/ Raise(w, "webdriver") /\ UNCHANGED driver
  /\ UNCHANGED <<message_status, uploads, response, csv_path, df,
                 today_clients, index, message, success, session, attempted,
                 probe>>
  /\ status_json' = NotSending

\* Line 277, check_session_webapp: true or false, never an exception.
l277(w) ==
  /\ pc[w] = "l277"
  /\ \E ok \in BOOLEAN :
       /\ session' = [session EXCEPT ![w] = IF ok THEN "ok" ELSE "failed"]
       /\ Goto(w, IF ok THEN "l283" ELSE "l278")
  /\ UNCHANGED <<message_status, uploads, response, csv_path, df,
                 today_clients, driver, index, message, success, exc,
                 attempted, probe>>
  /\ status_json' = NotSending

l278(w) == Write(w, "l278", "current_step", "Session check failed", "l279")

\* A session failure after which the function does not return but goes on
\* to the sending loop.
l279_goes_on(w) == Write(w, "l279", "is_running", FALSE, "l283")

l279(w) == WriteAndReturn(w, "l279")

l283(w) == Write(w, "l283", "current_step", "Sending messages...", "l285")

\* Lines 285-297: the next row of today_clients, if any, and its message.
l285(w) ==
  /\ pc[w] = "l285"
  /\ IF index[w] < Len(today_clients[w])
     THEN /\ message' =
               [message EXCEPT ![w] =
                  Render(templates[today_clients[w][index[w] + 1].Category],
                         today_clients[w][index[w] + 1])]
          /\ Goto(w, "l300")
     ELSE /\ Goto(w, "l311")
          /\ UNCHANGED message
  /\ UNCHANGED <<message_status, uploads, response, csv_path, df,
                 today_clients, driver, index, success, exc, session,
                 attempted, probe>>
  /\ status_json' = NotSending

\* A send whose false result is raised as an exception instead of returned.
l300_false_raises(w) ==
  /\ pc[w] = "l300"
  /\ attempted' = [attempted EXCEPT ![w] = @ + 1]
  /\ \/ /\ success' = [success EXCEPT ![w] = TRUE]
        /\ Goto(w, "l302")
        /\ UNCHANGED exc
     \/ Raise(w, "send") /\ UNCHANGED success
  /\ UNCHANGED <<message_status, uploads, response, csv_path, df,
                 today_clients, driver, index, message, session, probe>>
  /\ status_json' = NotSending

\* Line 300, send_whatsapp_message_webapp: true or false, never an exception.
l300(w) ==
  /\ pc[w] = "l300"
  /\ \E ok \in BOOLEAN : success' = [success EXCEPT ![w] = ok]
  /\ attempted' = [attempted EXCEPT ![w] = @ + 1]
  /\ Goto(w, "l302")
  /\ UNCHANGED <<message_status, uploads, response, csv_path, df,
                 today_clients, driver, index, message, exc, session, probe>>
  /\ status_json' = NotSending

\* A false result after which the send is made again for the same row.
l302_retries_failed(w) ==
  /\ pc[w] = "l302"
  /\ IF success[w]
     THEN SetStatus("progress", index[w] + 1) /\ Goto(w, "l303")
     ELSE Goto(w, "l300") /\ UNCHANGED message_status
  /\ UNCHANGED <<uploads, response, locals, probe>>
  /\ status_json' = NotSending

l302(w) == Write(w, "l302", "progress", index[w] + 1, "l303")

\* Lines 303-307.
MessageResult(row, ok) ==
  [client |-> row.Client, contact |-> row.Contact,
   status |-> IF ok THEN "Success" ELSE "Failed"]

\* An append after which only a successful send is followed by the delay.
l303_delays_after_success_only(w) ==
  /\ pc[w] = "l303"
  /\ SetStatus("messages",
               Append(message_status.messages,
                      MessageResult(today_clients[w][index[w] + 1],
                                    success[w])))
  /\ IF success[w]
     THEN Goto(w, "l309") /\ UNCHANGED index
     ELSE Goto(w, "l285") /\ index' = [index EXCEPT ![w] = @ + 1]
  /\ UNCHANGED <<uploads, response, csv_path, df, today_clients, driver,
                 message, success, exc, session, attempted, probe>>
  /\ status_json' = NotSending

l303(w) ==
  Write(w, "l303", "messages",
        Append(message_status.messages,
               MessageResult(today_clients[w][index[w] + 1], success[w])),
        "l309")

\* A delay after which the loop is left at once, whatever rows remain.
l309_breaks(w) ==
  /\ pc[w] = "l309"
  /\ index' = [index EXCEPT ![w] = @ + 1]
  /\ Goto(w, "l311")
  /\ UNCHANGED <<message_status, uploads, response, csv_path, df,
                 today_clients, driver, message, success, exc, session,
                 attempted, probe>>
  /\ status_json' = NotSending

\* Line 309, and the step of the for loop.
l309(w) ==
  /\ pc[w] = "l309"
  /\ index' = [index EXCEPT ![w] = @ + 1]
  /\ Goto(w, "l285")
  /\ UNCHANGED <<message_status, uploads, response, csv_path, df,
                 today_clients, driver, message, success, exc, session,
                 attempted, probe>>
  /\ status_json' = NotSending

\* Line 311: driver.quit() ends the browser or raises.
l311(w) ==
  /\ pc[w] = "l311"
  /\ \/ /\ Goto(w, "l312")
        /\ driver' = [driver EXCEPT ![w] = "quit"]
        /\ UNCHANGED exc
     \/ Raise(w, "quit") /\ UNCHANGED driver
  /\ UNCHANGED <<message_status, uploads, response, csv_path, df,
                 today_clients, index, message, success, session, attempted,
                 probe>>
  /\ status_json' = NotSending

l312(w) == Write(w, "l312", "current_step", "Completed", "l313")

l313(w) == WriteAndReturn(w, "l313")

ErrorStep(e) == "Error: " \o e

\* A handler that also empties messages.
l316_clears_messages(w) ==
  /\ pc[w] = "l316"
  /\ message_status' =
       [message_status EXCEPT !.current_step = ErrorStep(exc[w]),
                              !.messages = <<>>]
  /\ Goto(w, "l317")
  /\ UNCHANGED <<uploads, response, locals, probe>>
  /\ status_json' = NotSending

l316(w) == Write(w, "l316", "current_step", ErrorStep(exc[w]), "l317")

l317(w) == WriteAndReturn(w, "l317")

run_messaging_process(w) ==
  \/ l226(w) \/ l227(w) \/ l228(w) \/ l229(w) \/ l232(w) \/ l245(w)
  \/ l246(w) \/ l250(w) \/ l251(w) \/ l260(w) \/ l263(w) \/ l274(w)
  \/ l275(w) \/ l277(w) \/ l278(w) \/ l279(w) \/ l283(w) \/ l285(w)
  \/ l300(w) \/ l302(w) \/ l303(w) \/ l309(w) \/ l311(w) \/ l312(w)
  \/ l313(w) \/ l316(w) \/ l317(w)

Next ==
  \/ \E f \in CsvFiles : upload_csv(f)
  \/ start_messaging
  \/ get_status
  \/ \E w \in Workers : run_messaging_process(w)

Spec == Init /\ [][Next]_vars

\* Every thread that was started keeps being scheduled, and every external
\* call it makes returns or raises.
FairSpec == Spec /\ \A w \in Workers : WF_vars(run_messaging_process(w))

\* The threads that exist.
Active == {w \in Workers : pc[w] # "idle"}

\* The behaviours in which no start request is answered while a thread
\* exists: what a single client sees that waits for a run to end before it
\* asks for the next one.
SerialNext == Next /\ Cardinality({w \in Workers : pc'[w] # "idle"}) <= 1

SerialSpec == Init /\ [][SerialNext]_vars

\* The same behaviours, with uploads of files named .txt among the requests.
UploadsNext == Next \/ \E f \in TxtFiles : upload_csv(f)

SerialUploadsNext ==
  UploadsNext /\ Cardinality({w \in Workers : pc'[w] # "idle"}) <= 1

SpecUploads == Init /\ [][SerialUploadsNext]_vars

(* ------------------- the filter and the renderer alone ----------------- *)

\* Rows for the filter: row i is named r<i>, its category and date cell are
\* drawn from the values below.
FilterCategories == {"Active", "Inactive", "NoClientsInstruction", "Closed"}

FilterDateCells == {"2025-01-07", "2025-01-08", "not-a-date"}

RowName(i) == <<"r" \o ToString(i)>>

FilterRow(i, cell) ==
  Row(RowName(i), <<"9">>, cell[2], cell[1], <<"T">>, <<"P">>)

FilterInputs ==
  UNION {{[i \in 1 .. n |-> FilterRow(i, cells[i])] :
            cells \in [1 .. n -> FilterCategories \X FilterDateCells]} :
         n \in 0 .. MaxRecords}

InitFilter ==
  /\ Started
  /\ \E rows \in FilterInputs, now \in 0 .. MaxProbeClock :
       probe = [fn |-> "rows",
                arg |-> [rows |-> rows, today |-> now + LookAheadDays],
                out |-> <<>>]

\* Lines 254-258 applied to the drawn rows and reference date.
ApplyDue ==
  /\ probe.fn = "rows"
  /\ probe' = [probe EXCEPT !.fn = "due",
                            !.out = Due(probe.arg.rows, probe.arg.today)]
  /\ UNCHANGED <<message_status, uploads, response, pc, locals, status_json>>

SpecFilter == InitFilter /\ [][ApplyDue]_vars

\* Templates for the renderer: up to MaxTemplate pieces, a piece being plain
\* text, a placeholder of a record field, a placeholder of no field, or a lone
\* brace or field name.
TemplatePieces ==
  { <<"Dear ">>, <<"{", "Client", "}">>, <<"{", "Parties", "}">>,
    <<"{", "Court", "}">>, <<"{">>, <<"Client">>, <<"}">> }

RECURSIVE Concat(_)
Concat(pieces) ==
  IF pieces = <<>> THEN <<>> ELSE Head(pieces) \o Concat(Tail(pieces))

RenderTemplates ==
  UNION {{Concat(ps) : ps \in [1 .. n -> TemplatePieces]} :
         n \in 0 .. MaxTemplate}

\* Rows for the renderer, as the loop of line 285 sees them (the date already
\* converted): client and parties are plain or are themselves placeholder text.
RenderRows ==
  {Row(c, <<"9">>, 6, "Active", <<"T">>, p) :
     c \in {<<"Ann">>, <<"{", "Parties", "}">>},
     p \in {<<"X">>, <<"{", "Client", "}">>}}

InitRender ==
  /\ Started
  /\ \E t \in RenderTemplates, row \in RenderRows :
       probe = [fn |-> "template", arg |-> [template |-> t, row |-> row],
                out |-> <<>>]

\* Lines 291-297 applied to the drawn template and row.
ApplyRender ==
  /\ probe.fn = "template"
  /\ probe' = [probe EXCEPT !.fn = "render",
                            !.out = Render(probe.arg.template, probe.arg.row)]
  /\ UNCHANGED <<message_status, uploads, response, pc, locals, status_json>>

SpecRender == InitRender /\ [][ApplyRender]_vars

\* Characters of a Contact cell: a sign, a digit, a space and, for every
\* other whitespace character, a tab.
ContactChars == {"+", "9"} \cup Whitespace

ContactInputs == UNION {[1 .. n -> ContactChars] : n \in 0 .. MaxContact}

InitContact ==
  /\ Started
  /\ \E c \in ContactInputs :
       probe = [fn |-> "contact", arg |-> c, out |-> <<>>]

\* Line 247 applied to the drawn cell.
ApplyNormalizeContact ==
  /\ probe.fn = "contact"
  /\ probe' = [probe EXCEPT !.fn = "normalized",
                            !.out = NormalizeContact(probe.arg)]
  /\ UNCHANGED <<message_status, uploads, response, pc, locals, status_json>>

SpecContact == InitContact /\ [][ApplyNormalizeContact]_vars

\* send_whatsapp_message_webapp, lines 351-376, statement by statement, on a
\* browser whose behaviour is drawn beforehand: whether driver.get raises, and
\* for each locator whether the wait for a clickable button times out, the
\* click goes through, or the click raises.
send_button_xpaths ==
  <<"//*[@id=\"main\"]/footer/div[1]/div/span/div/div[2]/div/div[4]/button",
    "//span[@data-testid=\"send\"]">>

ButtonBehaviours == {"timeout", "clicked", "click raises"}

InitSend ==
  /\ Started
  /\ \E get \in {"loads", "raises"},
        buttons \in [1 .. Len(send_button_xpaths) -> ButtonBehaviours] :
       probe = [fn |-> "send",
                arg |-> [get |-> get, buttons |-> buttons],
                out |-> [at |-> "l354", xpath |-> 0, tried |-> <<>>,
                         result |-> <<>>]]

SendAt(l) == probe.fn = "send" /\ probe.out.at = l

SendFrame ==
  UNCHANGED <<message_status, uploads, response, pc, locals, status_json>>

\* Lines 354-355: the text is quoted and the URL built.
send_l354 ==
  /\ SendAt("l354")
  /\ probe' = [probe EXCEPT !.out.at = "l356"]
  /\ SendFrame

\* Line 356, driver.get(url): the loop starts with the first locator, or the
\* exception is caught at line 375.
send_l356 ==
  /\ SendAt("l356")
  /\ probe' = IF probe.arg.get = "loads"
              THEN [probe EXCEPT !.out.at = "l365", !.out.xpath = 1]
              ELSE [probe EXCEPT !.out.at = "l376"]
  /\ SendFrame

\* Lines 371-372 and 363, except Exception: continue, with the next locator
\* or, after the last, to line 374.
Continue(out) ==
  IF out.xpath < Len(send_button_xpaths)
  THEN [out EXCEPT !.at = "l365", !.xpath = @ + 1]
  ELSE [out EXCEPT !.at = "l374"]

\* Lines 365-367, WebDriverWait(driver, 10).until(element_to_be_clickable).
send_l365 ==
  /\ SendAt("l365")
  /\ LET waited ==
           [probe.out EXCEPT
              !.tried = Append(@, send_button_xpaths[probe.out.xpath])]
     IN probe' = [probe EXCEPT !.out =
                    IF probe.arg.buttons[probe.out.xpath] = "timeout"
                    THEN Continue(waited)
                    ELSE [waited EXCEPT !.at = "l368"]]
  /\ SendFrame

\* Line 368, time.sleep(2).
send_l368 ==
  /\ SendAt("l368")
  /\ probe' = [probe EXCEPT !.out.at = "l369"]
  /\ SendFrame

\* A click whose exception ends the function with False.
send_l369_gives_up ==
  /\ SendAt("l369")
  /\ probe' = [probe EXCEPT !.out =
                 IF probe.arg.buttons[probe.out.xpath] = "clicked"
                 THEN [probe.out EXCEPT !.at = "l370"]
                 ELSE [probe.out EXCEPT !.at = "l376"]]
  /\ SendFrame

\* Line 369, send_button.click().
send_l369 ==
  /\ SendAt("l369")
  /\ probe' = [probe EXCEPT !.out =
                 IF probe.arg.buttons[probe.out.xpath] = "clicked"
                 THEN [probe.out EXCEPT !.at = "l370"]
                 ELSE Continue(probe.out)]
  /\ SendFrame

SendReturns(l, value) ==
  /\ SendAt(l)
  /\ probe' = [probe EXCEPT !.fn = "sent", !.out.at = "returned",
                            !.out.result = <<value>>]
  /\ SendFrame

\* Line 370, return True.
send_l370 == SendReturns("l370", TRUE)

\* Line 374, return False after the loop.
send_l374 == SendReturns("l374", FALSE)

\* Lines 375-376, except Exception: return False.
send_l376 == SendReturns("l376", FALSE)

send_whatsapp_message_webapp ==
  \/ send_l354 \/ send_l356 \/ send_l365 \/ send_l368 \/ send_l369
  \/ send_l370 \/ send_l374 \/ send_l376

SpecSend == InitSend /\ [][send_whatsapp_message_webapp]_vars

(* ------------------------------- claims -------------------------------- *)

\* The positions of the drawn rows the claim calls due: category Active or
\* NoClientsInstruction, and a date cell that is the reference date written
\* as YYYY-MM-DD.
DuePositions ==
  {i \in 1 .. Len(probe.arg.rows) :
     /\ probe.arg.rows[i].Category \in {"Active", "NoClientsInstruction"}
     /\ probe.arg.rows[i].NextHearingDate = DateStr(probe.arg.today)}

\* C9: the filter returns exactly the rows whose Category is Active or
\* NoClientsInstruction and whose NextHearingDate is the reference date, in
\* input order: the k-th row of the result is the row at the k-th smallest
\* due position, and total = the number of due positions.  Rows with an
\* unparseable date or another category are at no due position.
C9_FilterExact ==
  probe.fn = "due" =>
    /\ Len(probe.out) = Cardinality(DuePositions)
    /\ \A k \in 1 .. Len(probe.out) :
         \E i \in DuePositions :
           /\ Cardinality({j \in DuePositions : j < i}) = k - 1
           /\ probe.out[k].Client = probe.arg.rows[i].Client
           /\ probe.out[k].Contact = probe.arg.rows[i].Contact
           /\ probe.out[k].Category = probe.arg.rows[i].Category
           /\ probe.out[k].NextHearingDate = probe.arg.today

\* C9 witness: the rows A (Active, due), B (Active, a day later) and
\* C (NoClientsInstruction, due) were filtered and the result is [A, C].
C9_Witness ==
  /\ probe.fn = "due"
  /\ Len(probe.arg.rows) = 3
  /\ probe.arg.today = 6
  /\ probe.arg.rows[1].Category = "Active"
  /\ probe.arg.rows[1].NextHearingDate = "2025-01-07"
  /\ probe.arg.rows[2].Category = "Active"
  /\ probe.arg.rows[2].NextHearingDate = "2025-01-08"
  /\ probe.arg.rows[3].Category = "NoClientsInstruction"
  /\ probe.arg.rows[3].NextHearingDate = "2025-01-07"
  /\ Len(probe.out) = 2
  /\ probe.out[1].Client = RowName(1)
  /\ probe.out[2].Client = RowName(3)

\* The simultaneous substitution on a template: one scan, left to right, in
\* which {FieldName} of a record field becomes the field's text and every
\* other token stays; text put in by a substitution is not scanned again.
RECURSIVE Simultaneous(_, _)
Simultaneous(t, row) ==
  IF t = <<>> THEN <<>>
  ELSE IF /\ Len(t) >= 3
          /\ t[1] = "{"
          /\ t[3] = "}"
          /\ t[2] \in {required_columns[i] : i \in 1 .. Len(required_columns)}
       THEN StrCell(row, t[2]) \o Simultaneous(SubSeq(t, 4, Len(t)), row)
       ELSE <<Head(t)>> \o Simultaneous(Tail(t), row)

\* C10: for every template and record the rendered text is the simultaneous
\* substitution of the six fields on the template, placeholders of no field
\* left as they are, whatever the field values contain.
C10_RenderSimultaneous ==
  probe.fn = "render" =>
    probe.out = Simultaneous(probe.arg.template, probe.arg.row)

\* C1: at most one Dispatch Worker is active at a time, under any
\* interleaving of start requests.
C1_SingleFlight == Cardinality(Active) <= 1

\* A thread executes the last statement of its function.
Ends(w) == pc[w] \in {"l279", "l313", "l317"} /\ pc'[w] = "idle"

\* C2: a run in which check_session_webapp returned false ends with
\* progress 0, no messages, is_running false and current_step "Session check
\* failed", and has sent nothing.
C2_SessionFailureLeavesNothing ==
  [][\A w \in Workers :
       (pc[w] = "l279" /\ pc'[w] = "idle") =>
         /\ message_status'.progress = 0
         /\ message_status'.messages = <<>>
         /\ ~message_status'.is_running
         /\ message_status'.current_step = "Session check failed"
         /\ attempted[w] = 0]_vars

\* C3: whenever current_step is "Completed", len(messages) = total =
\* progress, and while the run that wrote it still holds its due-set,
\* messages[i] carries the client and contact of the i-th due row.
C3_CompletedMatchesDueSet ==
  message_status.current_step = "Completed" =>
    /\ Len(message_status.messages) = message_status.total
    /\ message_status.progress = message_status.total
    /\ \A w \in Workers :
         pc[w] = "l313" =>
           /\ Len(message_status.messages) = Len(today_clients[w])
           /\ \A i \in 1 .. Len(today_clients[w]) :
                /\ message_status.messages[i].client =
                     today_clients[w][i].Client
                /\ message_status.messages[i].contact =
                     today_clients[w][i].Contact

\* The steps a thread takes.
Moves(w) == pc'[w] # pc[w]

\* C4: the result of a send, false as well as true, is recorded (false as
\* Failed, true as Success) and the thread goes on: after the send come the
\* progress write, the append, the delay and the next row, never the
\* exception handler; the loop is left only when every due row was sent to,
\* and from there the run is marked Completed.
C4_FailedSendRecordedNotFatal ==
  [][\A w \in Workers :
       /\ (pc[w] = "l300" /\ Moves(w)) => pc'[w] = "l302"
       /\ (pc[w] = "l302" /\ Moves(w)) => pc'[w] = "l303"
       /\ (pc[w] = "l303" /\ Moves(w)) =>
            /\ pc'[w] = "l309"
            /\ message_status'.messages =
                 Append(message_status.messages,
                        [client |-> today_clients[w][index[w] + 1].Client,
                         contact |-> today_clients[w][index[w] + 1].Contact,
                         status |-> IF success[w] THEN "Success"
                                    ELSE "Failed"])
       /\ (pc[w] = "l309" /\ Moves(w)) =>
            pc'[w] = "l285" /\ index'[w] = index[w] + 1
       /\ (pc[w] = "l285" /\ Moves(w)) =>
            IF index[w] < Len(today_clients[w])
            THEN pc'[w] = "l300"
            ELSE pc'[w] \in {"l311"} /\ attempted[w] = Len(today_clients[w])
       /\ (pc[w] = "l311" /\ Moves(w) /\ driver'[w] = "quit") =>
            pc'[w] = "l312"
       /\ (pc[w] = "l312" /\ Moves(w)) =>
            /\ message_status'.current_step = "Completed"
            /\ attempted[w] = Len(today_clients[w])]_vars

\* C4 witness: a run whose first send failed and whose second succeeded is
\* marked Completed, both results recorded.
C4_Witness ==
  /\ message_status.current_step = "Completed"
  /\ Len(message_status.messages) = 2
  /\ message_status.messages[1].status = "Failed"
  /\ message_status.messages[2].status = "Success"
  /\ \E w \in Workers : pc[w] = "l313" /\ attempted[w] = 2

\* C5: a run ends without having sent to every row of its due-set only if
\* check_session_webapp returned false.
C5_OnlySessionFailureAborts ==
  [][\A w \in Workers :
       (Ends(w) /\ attempted[w] < Len(today_clients[w])) =>
         session[w] = "failed"]_vars

\* C5 as amended: a run ends without having sent to every row of its due-set
\* only if check_session_webapp returned false or an exception was raised
\* before the sending loop began (reading the templates, starting the
\* browser); a run that passed the session check sends to every due row.
C5_AbortsOnlyBeforeSending ==
  [][\A w \in Workers :
       (Ends(w) /\ attempted[w] < Len(today_clients[w])) =>
         \/ pc[w] = "l279" /\ session[w] = "failed" /\ attempted[w] = 0
         \/ /\ pc[w] = "l317"
            /\ session[w] = "unknown"
            /\ attempted[w] = 0
            /\ exc[w] \in {"template", "webdriver"}]_vars

\* C5 witness: a run with two due rows is in the exception handler for a
\* template that could not be read, nothing sent.
C5_Witness ==
  \E w \in Workers :
    /\ pc[w] = "l317"
    /\ exc[w] = "template"
    /\ Len(today_clients[w]) = 2
    /\ attempted[w] = 0

\* C6: an exception raised at any stage is handled by the thread itself: the
\* raising step writes nothing, the handler sets current_step to "Error: "
\* and the message, then is_running to false, neither step touches messages,
\* and a thread ends only by executing the last statement of one of its three
\* paths, never by an exception that leaves the function.
C6_ErrorsCaughtByWorker ==
  [][\A w \in Workers :
       /\ (pc[w] # "l316" /\ pc'[w] = "l316") =>
            message_status' = message_status /\ exc'[w] # ""
       /\ (pc[w] = "l316" /\ Moves(w)) =>
            /\ pc'[w] = "l317"
            /\ message_status' =
                 [message_status EXCEPT
                    !.current_step = "Error: " \o exc[w]]
       /\ (pc[w] = "l317" /\ Moves(w)) =>
            /\ pc'[w] = "idle"
            /\ message_status' = [message_status EXCEPT !.is_running = FALSE]
       /\ (pc[w] # "idle" /\ pc'[w] = "idle") =>
            Ends(w) /\ ~message_status'.is_running /\ response' = response]_vars

\* C6 witness: driver.quit() raised after two results were appended; the
\* handler has written the error and both results are still there.
C6_Witness ==
  \E w \in Workers :
    /\ pc[w] = "l317"
    /\ exc[w] = "quit"
    /\ message_status.current_step = "Error: quit"
    /\ Len(message_status.messages) = 2

\* What current_step shows once a run has ended.
TerminalSteps ==
  {"Completed", "Session check failed"} \cup
  {"Error: " \o e :
     e \in {"config.json", "read_csv", "not in index", "template",
            "webdriver", "quit"}}

\* C7: every started run ends, and ends in a state with is_running false and
\* current_step "Completed", "Session check failed" or "Error: ...".
C7_RunEndsInTerminalState ==
  [][\A w \in Workers :
       (pc[w] # "idle" /\ pc'[w] = "idle") =>
         /\ ~message_status'.is_running
         /\ message_status'.current_step \in TerminalSteps]_vars

\* C8: once a run has executed its initialisation (lines 226-229) and is the
\* only thread, message_status holds nothing of the run before: total
\* included, every field has the value of a fresh run.
C8_RunStartOverwritesAllFields ==
  \A w \in Workers :
    (pc[w] = "l232" /\ Active = {w}) =>
      message_status =
        [is_running |-> TRUE, current_step |-> "Initializing...",
         progress |-> 0, total |-> 0, messages |-> <<>>]

\* Thread w executes a statement of run_messaging_process in this step.
Executes(w) == pc[w] # "idle" /\ pc'[w] # pc[w]

\* C11: only the worker writes message_status: a step in which no thread
\* executes a statement (a status read, a start request that is accepted, up
\* to and including the spawn of its thread, a start request that is
\* rejected, an upload) leaves every field of message_status unchanged.
C11_OnlyWorkerWrites ==
  [][(\A w \in Workers : ~Executes(w)) =>
       /\ message_status'.is_running = message_status.is_running
       /\ message_status'.current_step = message_status.current_step
       /\ message_status'.progress = message_status.progress
       /\ message_status'.total = message_status.total
       /\ message_status'.messages = message_status.messages]_vars

\* A start request was accepted and its thread spawned, then the status was
\* read, and the dictionary is still the one of start-up.
C11_Witness ==
  /\ response = "started"
  /\ \E w \in Workers : pc[w] = "l226"
  /\ \A w \in Workers : pc[w] \in {"idle", "l226"}
  /\ status_json # NotSending
  /\ ~message_status.is_running
  /\ message_status.current_step = ""

\* C12: a status read can be answered in every state, whatever the threads
\* are doing, and its answer holds every field of message_status as last
\* written: the answer being sent equals the dictionary.
C12_StatusReadIsCurrent ==
  /\ ENABLED get_status
  /\ status_json # NotSending => status_json = <<message_status>>

\* The status is read while a thread is inside the send of its second row,
\* and the answer shows the result of the first.
C12_Witness ==
  /\ status_json # NotSending
  /\ \E w \in Workers : pc[w] = "l300" /\ index[w] = 1
  /\ status_json[1].is_running
  /\ status_json[1].current_step = "Sending messages..."
  /\ status_json[1].progress = 1
  /\ Len(status_json[1].messages) = 1

NotWhitespace(c) == c \notin Whitespace

\* C13: the stored contact is the input with every whitespace character
\* removed, leading, trailing and embedded, spaces and other whitespace
\* alike, and every other character kept in order.
C13_AllWhitespaceRemoved ==
  probe.fn = "normalized" => probe.out = SelectSeq(probe.arg, NotWhitespace)

\* The locators tried are the first ones of the list, in list order.
TriedInOrder ==
  /\ Len(probe.out.tried) <= Len(send_button_xpaths)
  /\ \A i \in 1 .. Len(probe.out.tried) :
       probe.out.tried[i] = send_button_xpaths[i]

\* True is returned on the first locator whose button was clickable and was
\* clicked, and no later locator is tried.
TrueOnFirstClicked ==
  /\ probe.out.tried # <<>>
  /\ probe.arg.buttons[Len(probe.out.tried)] = "clicked"
  /\ \A i \in 1 .. Len(probe.out.tried) - 1 :
       probe.arg.buttons[i] # "clicked"

\* Every locator of the list was tried and none was clicked.
AllTriedNoneClicked ==
  /\ probe.out.tried = send_button_xpaths
  /\ \A i \in 1 .. Len(send_button_xpaths) : probe.arg.buttons[i] # "clicked"

\* C14 as stated: the locators are tried strictly in list order, True is
\* returned as soon as one is clickable and clicked, and False is returned
\* only after every locator has been tried and none succeeded.
C14_FalseOnlyAfterAllTried ==
  probe.fn = "sent" =>
    /\ TriedInOrder
    /\ probe.out.result = <<TRUE>> => TrueOnFirstClicked
    /\ probe.out.result = <<FALSE>> => AllTriedNoneClicked

\* C14, amended: as above, but False is also returned when building or
\* opening the chat URL raised, and then no locator has been tried.
C14_FalseAfterAllTriedOrNoPage ==
  probe.fn = "sent" =>
    /\ TriedInOrder
    /\ probe.out.result = <<TRUE>> => TrueOnFirstClicked
    /\ probe.out.result = <<FALSE>> =>
         \/ AllTriedNoneClicked
         \/ probe.arg.get = "raises" /\ probe.out.tried = <<>>
    /\ \A i \in 1 .. Len(probe.out.tried) - 1 :
         probe.arg.buttons[i] \in {"timeout", "click raises"}

\* The first button never became clickable, the second was clicked: True,
\* after both locators were tried.
C14_Witness ==
  /\ probe.fn = "sent"
  /\ probe.arg.get = "loads"
  /\ probe.arg.buttons[1] = "timeout"
  /\ probe.arg.buttons[2] = "clicked"
  /\ probe.out.tried = send_button_xpaths
  /\ probe.out.result = <<TRUE>>

\* The stage of section 4.5 a thread is in, by the statement it is at: a
\* stage begins with the statement that writes its current_step (the reset of
\* lines 226-229 for Initializing, the handler of line 315 and the branch of
\* line 277 for Failed).
StageOf(l) ==
  CASE l = "idle" -> "Idle"
    [] l \in {"l226", "l227", "l228", "l229", "l232"} -> "Initializing"
    [] l \in {"l245", "l246"} -> "LoadingData"
    [] l \in {"l250", "l251", "l260", "l263"} -> "Filtering"
    [] l \in {"l274", "l275", "l277"} -> "OpeningSession"
    [] l \in {"l283", "l285", "l300", "l302", "l303", "l309", "l311"} ->
         "Sending"
    [] l \in {"l312", "l313"} -> "Completed"
    [] l \in {"l278", "l279", "l316", "l317"} -> "Failed"

StageOrder ==
  <<"Initializing", "LoadingData", "Filtering", "OpeningSession", "Sending",
    "Completed">>

\* What current_step shows in each stage.
StageStep ==
  [Initializing |-> {"Initializing..."},
   LoadingData |-> {"Processing CSV file..."},
   Filtering |-> {"Filtering clients..."},
   OpeningSession |-> {"Initializing browser..."},
   Sending |-> {"Sending messages..."},
   Completed |-> {"Completed"},
   Failed |-> TerminalSteps \ {"Completed"}]

\* C15: a thread passes through the stages in the order Initializing,
\* LoadingData, Filtering, OpeningSession, Sending, Completed: it starts in
\* Initializing, from a stage it goes only to the next one or to Failed, and
\* whenever it writes current_step it writes the name of the stage it is in.
\* In Completed and Failed it writes only the stage's current_step and then
\* is_running = False, with which the thread ends: nothing is written after.
C15_StagesInOrder ==
  [][\A w \in Workers :
       Moves(w) =>
         LET from == StageOf(pc[w])
             to == StageOf(pc'[w])
         IN /\ from = "Idle" => to = "Initializing"
            /\ (from # "Idle" /\ to # from) =>
                 \/ \E i \in 1 .. Len(StageOrder) - 1 :
                      from = StageOrder[i] /\ to = StageOrder[i + 1]
                 \/ to = "Failed" /\ from # "Completed"
                 \/ to = "Idle" /\ from \in {"Completed", "Failed"}
            /\ (from # "Idle" /\
                message_status'.current_step # message_status.current_step)
                 => message_status'.current_step \in StageStep[from]
            /\ from \in {"Completed", "Failed"} =>
                 /\ message_status'.progress = message_status.progress
                 /\ message_status'.total = message_status.total
                 /\ message_status'.messages = message_status.messages
                 /\ message_status'.is_running # message_status.is_running
                      => ~message_status'.is_running /\ to = "Idle"
                 /\ to = "Idle" => ~message_status'.is_running]_vars

\* Failed entered from Sending: every due row was sent to, then driver.quit()
\* raised.
C15_Witness ==
  \E w \in Workers :
    /\ pc[w] = "l317"
    /\ exc[w] = "quit"
    /\ attempted[w] = 2
    /\ message_status.current_step = "Error: quit"

\* C16: every status read observes progress <= len(messages), the result of
\* a row being appended before progress is set to index + 1.
C16_ProgressNeverAheadOfMessages ==
  status_json # NotSending =>
    status_json[1].progress <= Len(status_json[1].messages)

\* C17: messages is append-only within a run: every step leaves it unchanged
\* or appends one entry at its end (line 303), or is the reset of line 229
\* by a run that starts when no other run is under way; nothing else changes
\* or removes an entry, during a run or after it.
C17_MessagesAppendOnly ==
  [][\/ message_status'.messages = message_status.messages
     \/ /\ \E w \in Workers : pc[w] = "l303" /\ Moves(w)
        /\ Len(message_status'.messages) = Len(message_status.messages) + 1
        /\ SubSeq(message_status'.messages, 1, Len(message_status.messages))
             = message_status.messages
     \/ /\ \E w \in Workers : pc[w] = "l229" /\ Moves(w) /\ Active = {w}
        /\ message_status'.messages = <<>>]_vars

\* C18: the send is invoked at most once for each due row, in the order of
\* the due-set: the k-th invocation of a run is made for the k-th row, with
\* the message rendered for that row; the loop index never goes back; and a
\* run that is marked Completed has made exactly one invocation per due row,
\* whatever the invocations returned.
C18_OneSendPerDueRow ==
  [][\A w \in Workers :
       Moves(w) =>
         /\ pc[w] = "l300" =>
              /\ attempted[w] = index[w]
              /\ index[w] < Len(today_clients[w])
              /\ message[w] =
                   Render(templates[today_clients[w][index[w] + 1].Category],
                          today_clients[w][index[w] + 1])
              /\ attempted'[w] = attempted[w] + 1
         /\ pc[w] # "l300" => attempted'[w] \in {attempted[w], 0}
         /\ pc'[w] # "idle" => index'[w] >= index[w]
         /\ pc[w] = "l312" => attempted[w] = Len(today_clients[w])]_vars

\* A run over two due rows is marked Completed after two invocations, the
\* first of which returned false.
C18_Witness ==
  \E w \in Workers :
    /\ pc[w] = "l313"
    /\ Active = {w}
    /\ attempted[w] = 2
    /\ Len(today_clients[w]) = 2
    /\ Len(message_status.messages) = 2
    /\ message_status.messages[1].status = "Failed"
    /\ message_status.messages[2].status = "Success"

\* C19: the delay of line 309 follows every send, whatever it returned: a
\* send is entered only from the loop head, the loop head only from the start
\* of the loop or from the delay, and after a send the thread goes through
\* the progress write and the append to the delay; the loop is left, and the
\* run marked Completed, only from the loop head, so after the delay that
\* follows the last send.
C19_DelayAfterEverySend ==
  [][\A w \in Workers :
       Moves(w) =>
         /\ pc'[w] = "l300" => pc[w] = "l285"
         /\ pc'[w] = "l285" => pc[w] \in {"l283", "l309"}
         /\ pc[w] = "l300" => pc'[w] = "l302"
         /\ pc[w] = "l302" => pc'[w] = "l303"
         /\ pc[w] = "l303" => pc'[w] = "l309"
         /\ pc[w] = "l309" => pc'[w] = "l285" /\ index'[w] = attempted[w]
         /\ pc'[w] = "l311" => pc[w] = "l285" /\ index[w] = attempted[w]
         /\ pc'[w] = "l312" => pc[w] = "l311"]_vars

\* A thread is in the delay after the send for its last due row returned
\* false.
C19_Witness ==
  \E w \in Workers :
    /\ pc[w] = "l309"
    /\ ~success[w]
    /\ attempted[w] = 2
    /\ Len(today_clients[w]) = 2

\* C20: in every reachable state 0 <= progress <= total and
\* len(messages) <= total.
C20_ProgressAndMessagesWithinTotal ==
  /\ 0 <= message_status.progress
  /\ message_status.progress <= message_status.total
  /\ Len(message_status.messages) <= message_status.total

\* C21: in every reachable state, is_running false implies that current_step
\* is the empty string of start-up or a terminal value ("Completed", "Session
\* check failed", "Error: ..."), never the step of a run under way.
C21_NotRunningShowsTerminalStep ==
  ~message_status.is_running =>
    message_status.current_step \in {""} \cup TerminalSteps

\* A thread executes the last statement of its function, on any path, and
\* the browser it opened at line 275 has not been quit.
LeavesDriverOpen(w) == Ends(w) /\ driver[w] = "open"

\* C22: a run that opened the browser has quit it when it ends, on every
\* path (Completed, session check failed, error): no thread returns with its
\* driver open.
C22_DriverQuitBeforeRunEnds ==
  [][\A w \in Workers : ~LeavesDriverOpen(w)]_vars

\* C23: a start request answered while is_running is false and no file has
\* been uploaded is rejected with an error, spawns no thread and leaves
\* message_status unchanged; answered while is_running is false and at least
\* one file has been uploaded, it spawns a thread on the file uploaded last.
C23_StartUsesLatestUpload ==
  [][start_messaging =>
       /\ (~message_status.is_running /\ uploads = <<>>) =>
            /\ response' = "upload a CSV first"
            /\ pc' = pc
            /\ message_status' = message_status
       /\ (~message_status.is_running /\ uploads # <<>>) =>
            /\ response' = "started"
            /\ \E w \in Workers :
                 /\ pc[w] = "idle"
                 /\ pc'[w] = "l226"
                 /\ csv_path'[w] = Last(uploads)]_vars

====
